---- MODULE Spec2Model ----
(***************************************************************************)
(* A model of the LunarCrush diagnostic scripts under scripts/:            *)
(*   test_trends.py, explore_smart_trends.py, fetch_lunarcrush.py and      *)
(*   verify_lunar_integrations.py.                                         *)
(* Each script is a sequential process.  An HTTP call is two steps: the    *)
(* request is issued (the server's behaviour is fixed at that moment) and  *)
(* the helper returns.  A call on a server that never answers returns only *)
(* when the call was made with a timeout.                                  *)
(***************************************************************************)
EXTENDS Integers, Sequences, FiniteSets, TLC

VARIABLES
  script,    \* the script this process runs
  pc,        \* where the process is: a wait on an HTTP call, "done" or "crashed"
  mem,       \* the variables assigned so far
  out,       \* the lines printed so far
  requests,  \* the HTTP calls issued so far
  server,    \* the server's behaviour for the latest call
  ret,       \* the latest return of a helper and what the section after it did
  given      \* the argument handed to a function called on its own

vars == <<script, pc, mem, out, requests, server, ret, given>>

(***************************************************************************)
(* JSON values as Python sees them after json(): None, int, str, dict,     *)
(* list.  A dict is a function from its keys; an absent key is not in its  *)
(* domain.                                                                 *)
(***************************************************************************)
JNull == [t |-> "null"]
JInt(n) == [t |-> "int", n |-> n]
JStr(s) == [t |-> "str", s |-> s]
JDict(m) == [t |-> "dict", m |-> m]
JList(l) == [t |-> "list", l |-> l]

EmptyDict == JDict(<<>>)
EmptyList == JList(<<>>)

\* The outcome of evaluating an expression: a value, or an exception.
Ok(v) == [ok |-> TRUE, v |-> v, exc |-> ""]
Raise(e) == [ok |-> FALSE, v |-> JNull, exc |-> e]

Min(a, b) == IF a < b THEN a ELSE b

\* bool(v)
Truthy(v) ==
  CASE v.t = "null" -> FALSE
    [] v.t = "int" -> v.n # 0
    [] v.t = "str" -> v.s # ""
    [] v.t = "dict" -> DOMAIN v.m # {}
    [] v.t = "list" -> v.l # <<>>

\* d.get(k, default) on a dict d
Get(d, k, default) == IF k \in DOMAIN d.m THEN d.m[k] ELSE default

\* v.get(k, default) on any value: only a dict has the method
GetAttr(v, k, default) ==
  IF v.t = "dict" THEN Ok(Get(v, k, default)) ELSE Raise("AttributeError")

\* v[k] for a string key k
GetItemKey(v, k) ==
  CASE v.t = "dict" -> IF k \in DOMAIN v.m THEN Ok(v.m[k]) ELSE Raise("KeyError")
    [] OTHER -> Raise("TypeError")

\* v[0]
GetItemFirst(v) ==
  CASE v.t = "list" -> IF v.l # <<>> THEN Ok(v.l[1]) ELSE Raise("IndexError")
    [] v.t = "str" -> IF v.s # "" THEN Ok(v) ELSE Raise("IndexError")
    [] v.t = "dict" -> Raise("KeyError")
    [] OTHER -> Raise("TypeError")

\* k in v, for a string k
Contains(v, k) ==
  CASE v.t = "dict" -> Ok(k \in DOMAIN v.m)
    [] v.t = "list" -> Ok(\E i \in 1..Len(v.l) : v.l[i] = JStr(k))
    [] v.t = "str" -> Ok(v.s = k)
    [] OTHER -> Raise("TypeError")

\* len(v)
PyLen(v) ==
  CASE v.t = "list" -> Ok(Len(v.l))
    [] v.t = "str" -> Ok(Len(v.s))
    [] v.t = "dict" -> Ok(Cardinality(DOMAIN v.m))
    [] OTHER -> Raise("TypeError")

Take(s, n) == SubSeq(s, 1, Min(n, Len(s)))

\* v[:n].  The strings of this model are shorter than every slice taken.
Slice(v, n) ==
  CASE v.t = "list" -> Ok(JList(Take(v.l, n)))
    [] v.t = "str" -> Ok(v)
    [] v.t = "dict" -> Raise("TypeError")
    [] OTHER -> Raise("TypeError")

\* iter(v): the elements a for loop, a comprehension or sorted() visits.  A
\* non-empty str yields strs and a non-empty dict yields its keys, strs too:
\* one str stands for them, since every consumer here fails on the first.
Iter(v) ==
  CASE v.t = "list" -> Ok(v.l)
    [] v.t = "str" -> Ok(IF v.s = "" THEN <<>> ELSE <<v>>)
    [] v.t = "dict" -> Ok(IF DOMAIN v.m = {} THEN <<>> ELSE <<JStr("key")>>)
    [] OTHER -> Raise("TypeError")

\* str(v), as an f-string interpolates it
PyStr(v) ==
  CASE v.t = "null" -> "None"
    [] v.t = "int" -> ToString(v.n)
    [] v.t = "str" -> v.s
    [] v.t = "dict" -> "{..}"
    [] v.t = "list" -> "[..]"

Digits3(n) ==
  IF n < 10 THEN "00" \o ToString(n)
  ELSE IF n < 100 THEN "0" \o ToString(n) ELSE ToString(n)

RECURSIVE Thousands(_)
Thousands(n) ==
  IF n < 1000 THEN ToString(n)
  ELSE Thousands(n \div 1000) \o "," \o Digits3(n % 1000)

\* f"{v:,}"
FormatComma(v) ==
  CASE v.t = "int" -> Ok(IF v.n < 0 THEN "-" \o Thousands(0 - v.n) ELSE Thousands(v.n))
    [] v.t = "str" -> Raise("ValueError")
    [] OTHER -> Raise("TypeError")

(***************************************************************************)
(* sorted(iterable, key=lambda x: x.get(k, default), reverse=...) and      *)
(* list.sort(key=...): CPython's list sort.  It is stable; with reverse    *)
(* set the list is reversed before and after an ascending stable sort.     *)
(***************************************************************************)
Reverse(s) == [i \in 1..Len(s) |-> s[Len(s) + 1 - i]]

\* The strings that occur as ranking keys, in lexicographic order.
KeyStrings == <<"7">>

StrPos(s) == CHOOSE i \in 1..Len(KeyStrings) : KeyStrings[i] = s

\* a < b on two keys of the same comparable type
KeyLess(a, b) ==
  IF a.t = "int" THEN a.n < b.n ELSE StrPos(a.s) < StrPos(b.s)

\* Whether every a < b among these keys is defined (no TypeError)
Comparable(keys) ==
  \/ \A i \in 1..Len(keys) : keys[i].t = "int"
  \/ \A i \in 1..Len(keys) : keys[i].t = "str"

\* x goes before the first element greater than it: equal keys keep their order
InsertAsc(s, x) ==
  LET later == {i \in 1..Len(s) : KeyLess(x.k, s[i].k)}
      p == IF later = {} THEN Len(s) + 1
           ELSE CHOOSE i \in later : \A j \in later : i <= j
  IN SubSeq(s, 1, p - 1) \o <<x>> \o SubSeq(s, p, Len(s))

RECURSIVE SortAsc(_)
SortAsc(s) ==
  IF s = <<>> THEN <<>>
  ELSE InsertAsc(SortAsc(SubSeq(s, 1, Len(s) - 1)), s[Len(s)])

\* listsort without the two reversals: equal keys come out in reverse order
list_sort_noreverse(keyed, reverse) ==
  IF reverse THEN Reverse(SortAsc(keyed)) ELSE SortAsc(keyed)

list_sort(keyed, reverse) ==
  IF reverse THEN Reverse(SortAsc(Reverse(keyed))) ELSE SortAsc(keyed)

\* The key lambda that forgets its default: a missing key ranks as -1
KeyOfMinusOne(x, k, default) == Get(x, k, JInt(0 - 1))

\* lambda x: x.get(k, default), on a dict x
KeyOf(x, k, default) == Get(x, k, default)

\* items.sort(key=lambda x: x.get(k, default), reverse=reverse) on a list of
\* values: the key function runs on every item, then the keys are compared.
SortBy(items, k, default, reverse) ==
  IF \E i \in 1..Len(items) : items[i].t # "dict" THEN Raise("AttributeError")
  ELSE
    LET keyed == [i \in 1..Len(items) |-> [e |-> items[i], k |-> KeyOf(items[i], k, default)]]
        keys == [i \in 1..Len(keyed) |-> keyed[i].k]
    IN IF Len(keyed) >= 2 /\ ~Comparable(keys) THEN Raise("TypeError")
       ELSE LET r == list_sort(keyed, reverse)
            IN Ok(JList([i \in 1..Len(r) |-> r[i].e]))

\* sorted(v, key=lambda x: x.get(k, default), reverse=reverse)
Sorted(v, k, default, reverse) ==
  LET it == Iter(v) IN
  IF ~it.ok THEN Raise("TypeError") ELSE SortBy(it.v, k, default, reverse)

(***************************************************************************)
(* HTTP.  The server's behaviour for one call: a transport failure, no     *)
(* answer at all, or a status with a body that is JSON or not.             *)
(***************************************************************************)
RespExc == [kind |-> "exc"]
RespSilent == [kind |-> "silent"]
NotJson == [json |-> FALSE]
Json(v) == [json |-> TRUE, v |-> v]
Http(status, body) == [kind |-> "http", status |-> status, body |-> body]

\* One call of requests.get / requests.post.  timeout is <<>> when the call
\* passes none, payload is <<>> for a GET.
Call(method, url, timeout, payload, resp) ==
  [method |-> method, url |-> url, timeout |-> timeout, payload |-> payload,
   resp |-> resp]

\* requests.get / requests.post return (or raise) at all
Returns(call) == call.resp.kind # "silent" \/ call.timeout # <<>>

\* requests.get(...) / requests.post(...): the response, or a RequestException
HttpResult(call) ==
  CASE call.resp.kind = "exc" -> Raise("ConnectionError")
    [] call.resp.kind = "silent" -> Raise("Timeout")
    [] OTHER -> [ok |-> TRUE, v |-> call.resp, exc |-> ""]

\* response.json()
ResJson(resp) == IF resp.body.json THEN Ok(resp.body.v) ELSE Raise("JSONDecodeError")

\* response.raise_for_status()
RaisesForStatus(resp) == resp.status >= 400 /\ resp.status < 600

Line(fmt, args) == [fmt |-> fmt, args |-> args]

\* What a helper hands back: its value or the exception it lets through, and
\* the lines it printed.
Returned(r, printed) == [ok |-> r.ok, v |-> r.v, exc |-> r.exc, printed |-> printed]

\* get_json that lets the exception through instead of returning []
get_json_trends_raising(call) ==
  LET res == HttpResult(call) IN
  IF ~res.ok THEN Returned(Raise(res.exc), <<>>)
  ELSE IF res.v.status = 200 THEN
    LET body == ResJson(res.v) IN
    IF ~body.ok THEN Returned(Raise(body.exc), <<>>)
    ELSE LET data == GetAttr(body.v, "data", EmptyList) IN
         IF ~data.ok THEN Returned(Raise(data.exc), <<>>)
         ELSE Returned(Ok(data.v), <<>>)
  ELSE Returned(Ok(EmptyList), <<Line("Failed", <<call.url, ToString(res.v.status)>>)>>)

\* test_trends.py get_json(url)
get_json_trends(call) ==
  LET res == HttpResult(call) IN
  IF ~res.ok THEN Returned(Ok(EmptyList), <<Line("Error", <<call.url, res.exc>>)>>)
  ELSE IF res.v.status = 200 THEN
    LET body == ResJson(res.v) IN
    IF ~body.ok THEN Returned(Ok(EmptyList), <<Line("Error", <<call.url, body.exc>>)>>)
    ELSE LET data == GetAttr(body.v, "data", EmptyList) IN
         IF ~data.ok THEN Returned(Ok(EmptyList), <<Line("Error", <<call.url, data.exc>>)>>)
         ELSE Returned(Ok(data.v), <<>>)
  ELSE Returned(Ok(EmptyList), <<Line("Failed", <<call.url, ToString(res.v.status)>>)>>)

\* explore_smart_trends.py get_json(url)
get_json_explore(call) ==
  LET fetching == <<Line("Fetching", <<call.url>>)>>
      res == HttpResult(call)
  IN
  IF ~res.ok THEN Returned(Ok(JNull), fetching \o <<Line("Exception", <<res.exc>>)>>)
  ELSE IF res.v.status = 200 THEN
    LET body == ResJson(res.v) IN
    IF ~body.ok THEN Returned(Ok(JNull), fetching \o <<Line("Exception", <<body.exc>>)>>)
    ELSE LET data == GetAttr(body.v, "data", EmptyList) IN
         IF ~data.ok THEN Returned(Ok(JNull), fetching \o <<Line("Exception", <<data.exc>>)>>)
         ELSE Returned(Ok(data.v), fetching)
  ELSE Returned(Ok(JNull), fetching \o <<Line("ErrorStatus", <<ToString(res.v.status)>>)>>)

\* fetch_lunarcrush.py fetch_lunarcrush_data().  json() raises
\* requests.exceptions.JSONDecodeError, a RequestException (requests 2.27 and
\* later), so the except clause catches it.
fetch_lunarcrush_data(call) ==
  LET fetching == <<Line("FetchingData", <<call.url>>)>>
      failed(e) == Returned(Ok(JNull), fetching \o <<Line("ErrorFetching", <<e>>)>>)
      res == HttpResult(call)
  IN
  IF ~res.ok THEN failed(res.exc)
  ELSE IF RaisesForStatus(res.v) THEN failed("HTTPError")
  ELSE LET body == ResJson(res.v) IN
       IF body.ok THEN Returned(Ok(body.v), fetching) ELSE failed(body.exc)

(***************************************************************************)
(* Statements in sequence.  A section of a script yields the label it      *)
(* stops at, the variables it has assigned, the lines it has printed and   *)
(* the request it issues, if it stops at one.  An uncaught exception ends  *)
(* the process at "crashed" with the lines printed until then.             *)
(***************************************************************************)
Outcome(label, m, lines, req) == [pc |-> label, mem |-> m, out |-> lines, req |-> req]

Crashed(m, lines) == Outcome("crashed", m, lines, <<>>)

Request(method, url, timeout, payload, kind) ==
  [method |-> method, url |-> url, timeout |-> timeout, payload |-> payload,
   kind |-> kind]

Set(m, name, v) == (name :> v) @@ m

RECURSIVE Flatten(_)
Flatten(ss) == IF ss = <<>> THEN <<>> ELSE Head(ss) \o Flatten(Tail(ss))

ItemOk(lines) == [ok |-> TRUE, exc |-> "", lines |-> lines]
ItemRaise(e, lines) == [ok |-> FALSE, exc |-> e, lines |-> lines]

\* for i, x in enumerate(items, 1): Body(x, i), stopping at the first exception
ForEach(items, Body(_, _)) ==
  LET rs == [i \in 1..Len(items) |-> Body(items[i], i)]
      bad == {i \in 1..Len(items) : ~rs[i].ok}
      b == IF bad = {} THEN Len(items) ELSE CHOOSE i \in bad : \A j \in bad : i <= j
  IN [ok |-> bad = {},
      exc |-> IF bad = {} THEN "" ELSE rs[b].exc,
      lines |-> Flatten([i \in 1..b |-> rs[i].lines])]

(***************************************************************************)
(* fetch_lunarcrush.py                                                     *)
(***************************************************************************)
LUNAR_URL == "https://lunarcrush.com/api4/public/category/cryptocurrencies/news/v1"
GEMINI_URL == "https://generativelanguage.googleapis.com/v1beta/models/gemini-2.0-flash:generateContent"
Fallback == "Could not generate AI analysis."

PromptLimit == 15
TopStories == 5

\* One line of news_text
PromptLine(item) ==
  "- " \o PyStr(Get(item, "post_title", JNull))
    \o " (Source: " \o PyStr(Get(item, "creator_display_name", JNull))
    \o ", Sentiment: " \o PyStr(Get(item, "post_sentiment", JNull))
    \o ", Interactions: " \o PyStr(Get(item, "interactions_total", JNull)) \o ")"

\* news_items[:14]
TopNewsShort(news_items) == Slice(news_items, PromptLimit - 1)

\* top_news = news_items[:15]
TopNews(news_items) == Slice(news_items, PromptLimit)

\* get_ai_analysis up to the POST: the lines of news_text, joined by "\n" in
\* the prompt.  This part is outside the try block.
BuildPrompt(news_items) ==
  LET top == TopNews(news_items) IN
  IF ~top.ok THEN Raise(top.exc)
  ELSE LET it == Iter(top.v) IN
       IF \E i \in 1..Len(it.v) : it.v[i].t # "dict" THEN Raise("AttributeError")
       ELSE [ok |-> TRUE, v |-> [i \in 1..Len(it.v) |-> PromptLine(it.v[i])], exc |-> ""]

\* result['candidates'][0]['content']['parts'][0]['text']
CandidateText(result) ==
  LET c == GetItemKey(result, "candidates") IN
  IF ~c.ok THEN c ELSE
  LET c0 == GetItemFirst(c.v) IN
  IF ~c0.ok THEN c0 ELSE
  LET content == GetItemKey(c0.v, "content") IN
  IF ~content.ok THEN content ELSE
  LET parts == GetItemKey(content.v, "parts") IN
  IF ~parts.ok THEN parts ELSE
  LET p0 == GetItemFirst(parts.v) IN
  IF ~p0.ok THEN p0 ELSE GetItemKey(p0.v, "text")

\* get_ai_analysis from the POST's return on: the try block
AiAnswer(call) ==
  LET failed(e) == Returned(Ok(JStr(Fallback)), <<Line("ErrorAI", <<e>>)>>)
      res == HttpResult(call)
  IN
  IF ~res.ok THEN failed(res.exc)
  ELSE IF RaisesForStatus(res.v) THEN failed("HTTPError")
  ELSE LET body == ResJson(res.v) IN
       IF ~body.ok THEN failed(body.exc)
       ELSE LET text == CandidateText(body.v) IN
            IF ~text.ok THEN failed(text.exc) ELSE Returned(Ok(text.v), <<>>)

\* get_ai_analysis(news_items) up to the POST
get_ai_analysis_call(m, news_items, lines) ==
  LET said == lines \o <<Line("GeneratingAI", <<>>)>>
      prompt == BuildPrompt(news_items)
  IN IF ~prompt.ok THEN Crashed(m, said)
     ELSE Outcome("gemini", m, said,
                  <<Request("POST", GEMINI_URL, <<>>, prompt.v, "gemini")>>)

\* analyze_data without the "if not data" return
analyze_data_unguarded(m, json_data) ==
  IF ~Truthy(json_data) THEN Outcome("done", m, <<Line("NoValidData", <<>>)>>, <<>>)
  ELSE LET has == Contains(json_data, "data") IN
  IF ~has.ok THEN Crashed(m, <<>>)
  ELSE IF ~has.v THEN Outcome("done", m, <<Line("NoValidData", <<>>)>>, <<>>)
  ELSE LET data == GetItemKey(json_data, "data") IN
  IF ~data.ok THEN Crashed(m, <<>>)
  ELSE LET m1 == Set(m, "data", data.v)
           sorted_data == Sorted(data.v, "interactions_total", JInt(0), TRUE)
  IN
  IF ~sorted_data.ok THEN Crashed(m1, <<>>)
  ELSE get_ai_analysis_call(Set(m1, "sorted_data", sorted_data.v), sorted_data.v,
                            <<Line("BriefHeader", <<>>)>>)

\* analyze_data(json_data) up to the POST of get_ai_analysis
analyze_data(m, json_data) ==
  IF ~Truthy(json_data) THEN Outcome("done", m, <<Line("NoValidData", <<>>)>>, <<>>)
  ELSE LET has == Contains(json_data, "data") IN
  IF ~has.ok THEN Crashed(m, <<>>)
  ELSE IF ~has.v THEN Outcome("done", m, <<Line("NoValidData", <<>>)>>, <<>>)
  ELSE LET data == GetItemKey(json_data, "data") IN
  IF ~data.ok THEN Crashed(m, <<>>)
  ELSE LET m1 == Set(m, "data", data.v)
           sorted_data == Sorted(data.v, "interactions_total", JInt(0), TRUE)
  IN
  IF ~sorted_data.ok THEN Crashed(m1, <<>>)
  ELSE IF ~Truthy(data.v)
    THEN Outcome("done", Set(m1, "sorted_data", sorted_data.v),
                 <<Line("NoPostsFound", <<>>)>>, <<>>)
  ELSE get_ai_analysis_call(Set(m1, "sorted_data", sorted_data.v), sorted_data.v,
                            <<Line("BriefHeader", <<>>)>>)

\* The body of the top-stories loop
StoryLines(post, i) ==
  LET title == Get(post, "post_title", JStr("No Title"))
      interactions == Get(post, "interactions_total", JInt(0))
      source == Get(post, "creator_display_name", JStr("Unknown"))
      first == Line("Story", <<ToString(i), PyStr(title)>>)
      count == FormatComma(interactions)
  IN IF ~count.ok THEN ItemRaise(count.exc, <<first>>)
     ELSE ItemOk(<<first, Line("StorySource", <<PyStr(source), count.v>>)>>)

\* analyze_data from the return of get_ai_analysis on
analyze_data_report(m, answer) ==
  LET m1 == Set(m, "ai_insight", answer.v)
      said == answer.printed
                \o <<Line("AIAnalysis", <<PyStr(answer.v)>>), Line("TopStoriesHeader", <<>>)>>
      stories == ForEach(Take(m.sorted_data.l, TopStories), StoryLines)
  IN IF ~stories.ok THEN Crashed(m1, said \o stories.lines)
     ELSE Outcome("done", m1, said \o stories.lines \o <<Line("BriefFooter", <<>>)>>, <<>>)

\* if __name__ == "__main__": from the return of fetch_lunarcrush_data on
fetch_lunarcrush_main(fetched) ==
  IF ~fetched.ok THEN Crashed(<<>>, fetched.printed)
  ELSE LET m == Set(<<>>, "result", fetched.v) IN
       IF Truthy(fetched.v)
       THEN LET o == analyze_data(m, fetched.v)
            IN Outcome(o.pc, o.mem, fetched.printed \o o.out, o.req)
       ELSE Outcome("done", m, fetched.printed, <<>>)

(***************************************************************************)
(* explore_smart_trends.py                                                 *)
(***************************************************************************)
BASE_URL == "https://lunarcrush.com/api4/public"
ExploreTimeout == 15
TopTopics == 5
TopCategories == 5
NewsShown == 3

ExploreGet(path, kind) == Request("GET", BASE_URL \o path, <<ExploreTimeout>>, <<>>, kind)

\* "3. Get Trending CATEGORIES": the print and the call of get_json
ToCategories(m, lines) ==
  Outcome("categories", m, lines \o <<Line("Section3", <<>>)>>,
          <<ExploreGet("/categories/list/v1", "categories")>>)

TopicLine(t, i) ==
  ItemOk(<<Line("Topic", <<PyStr(Get(t, "topic", JNull)),
                           PyStr(Get(t, "social_volume_24h", JNull)),
                           PyStr(Get(t, "interactions_24h", JNull))>>)>>)

\* Sections 1 and 2 from the return of get_json(topics/list) to the next call
explore_topics(fetched) ==
  LET topics == fetched.v
      m == Set(<<>>, "topics", topics)
  IN
  IF ~Truthy(topics) THEN ToCategories(m, fetched.printed)
  ELSE LET n == PyLen(topics) IN
  IF ~n.ok THEN Crashed(m, fetched.printed)
  ELSE LET found == fetched.printed \o <<Line("FoundTopics", <<ToString(n.v)>>)>>
           sorted_topics == Sorted(topics, "interactions_24h", JInt(0), TRUE)
  IN
  IF ~sorted_topics.ok THEN Crashed(m, found)
  ELSE LET top_topics == Take(sorted_topics.v.l, TopTopics)
           m1 == Set(Set(m, "sorted_topics", sorted_topics.v), "top_topics", JList(top_topics))
           listed == found \o ForEach(top_topics, TopicLine).lines
  IN
  IF top_topics = <<>> THEN ToCategories(m1, listed)
  ELSE LET star_topic == Get(top_topics[1], "topic", JNull) IN
       Outcome("whatsup", Set(m1, "star_topic", star_topic),
               listed \o <<Line("DeepDive", <<PyStr(star_topic)>>),
                           Line("AskingWhatsUp", <<PyStr(star_topic)>>)>>,
               <<ExploreGet("/topic/" \o PyStr(star_topic) \o "/whatsup/v1", "whatsup")>>)

\* From the return of get_json(whatsup) to the call for the topic's news
explore_whatsup(m, fetched) ==
  LET whatsup == fetched.v
      summary == IF Truthy(whatsup) THEN <<Line("AISummary", <<PyStr(whatsup)>>)>> ELSE <<>>
  IN Outcome("news", Set(m, "whatsup", whatsup),
             fetched.printed \o summary \o <<Line("FetchingTopNews", <<PyStr(m.star_topic)>>)>>,
             <<ExploreGet("/topic/" \o PyStr(m.star_topic) \o "/news/v1", "news")>>)

NewsLine(n, i) ==
  IF n.t # "dict" THEN ItemRaise("AttributeError", <<>>)
  ELSE ItemOk(<<Line("News", <<ToString(i), PyStr(Get(n, "post_title", JNull)),
                               PyStr(Get(n, "creator_display_name", JNull))>>)>>)

CatNewsLine(n, i) ==
  IF n.t # "dict" THEN ItemRaise("AttributeError", <<>>)
  ELSE ItemOk(<<Line("CatNews", <<ToString(i), PyStr(Get(n, "post_title", JNull))>>)>>)

\* for i, n in enumerate(news[:3]): print(...)
ShowNews(news, Body(_, _)) ==
  LET cut == Slice(news, NewsShown) IN
  IF ~cut.ok THEN ItemRaise(cut.exc, <<>>) ELSE ForEach(Iter(cut.v).v, Body)

\* From the return of get_json(news) to the call for the categories
explore_news(m, fetched) ==
  LET news == fetched.v
      m1 == Set(m, "news", news)
  IN IF ~Truthy(news) THEN ToCategories(m1, fetched.printed)
     ELSE LET shown == ShowNews(news, NewsLine) IN
          IF ~shown.ok THEN Crashed(m1, fetched.printed \o shown.lines)
          ELSE ToCategories(m1, fetched.printed \o shown.lines)

CategoryLine(c, i) ==
  ItemOk(<<Line("Category", <<PyStr(Get(c, "name", JNull)),
                              PyStr(Get(c, "interactions_24h", JNull))>>)>>)

\* Section 3 from the return of get_json(categories/list) on
explore_categories(m, fetched) ==
  LET categories == fetched.v
      m1 == Set(m, "categories", categories)
  IN
  IF ~Truthy(categories) THEN Outcome("done", m1, fetched.printed, <<>>)
  ELSE LET sorted_cats == Sorted(categories, "interactions_24h", JInt(0), TRUE) IN
  IF ~sorted_cats.ok THEN Crashed(m1, fetched.printed)
  ELSE LET m2 == Set(m1, "sorted_cats", sorted_cats.v)
           listed == fetched.printed \o <<Line("Top5Categories", <<>>)>>
                       \o ForEach(Take(sorted_cats.v.l, TopCategories), CategoryLine).lines
  IN
  IF ~Truthy(sorted_cats.v) THEN Outcome("done", m2, listed, <<>>)
  ELSE LET top_cat == Get(sorted_cats.v.l[1], "category", JNull) IN
       Outcome("cat_news", Set(m2, "top_cat", top_cat),
               listed \o <<Line("NewsForTopCategory", <<PyStr(top_cat)>>)>>,
               <<ExploreGet("/category/" \o PyStr(top_cat) \o "/news/v1", "cat_news")>>)

\* From the return of get_json(category news) to the end
explore_cat_news(m, fetched) ==
  LET cat_news == fetched.v
      m1 == Set(m, "cat_news", cat_news)
  IN IF ~Truthy(cat_news) THEN Outcome("done", m1, fetched.printed, <<>>)
     ELSE LET shown == ShowNews(cat_news, CatNewsLine) IN
          IF ~shown.ok THEN Crashed(m1, fetched.printed \o shown.lines)
          ELSE Outcome("done", m1, fetched.printed \o shown.lines, <<>>)

(***************************************************************************)
(* test_trends.py                                                          *)
(***************************************************************************)
TrendsTimeout == 10
TopicsShown == 10
CatsShown == 5
CoinsShown == 5
AltRankDefault == 9999
ignored == {JStr("BTC"), JStr("ETH"), JStr("USDT"), JStr("USDC"), JStr("SOL")}

TrendsGet(path, kind) == Request("GET", BASE_URL \o path, <<TrendsTimeout>>, <<>>, kind)

TrendsTopicLine(t, i) ==
  LET topic == GetAttr(t, "topic", JStr("N/A")) IN
  IF ~topic.ok THEN ItemRaise(topic.exc, <<>>)
  ELSE ItemOk(<<Line("Topic", <<PyStr(topic.v),
                                PyStr(Get(t, "social_volume_24h", JInt(0)))>>)>>)

TrendsCatLine(c, i) ==
  LET category == GetAttr(c, "category", JStr("N/A")) IN
  IF ~category.ok THEN ItemRaise(category.exc, <<>>)
  ELSE ItemOk(<<Line("Category", <<PyStr(category.v),
                                   PyStr(Get(c, "interactions_24h", JInt(0)))>>)>>)

\* print(f"Found {len(v)} ..."); for x in v[:limit]: print(...)
CountAndList(v, label, limit, Body(_, _)) ==
  LET n == PyLen(v) IN
  IF ~n.ok THEN ItemRaise(n.exc, <<>>)
  ELSE LET found == <<Line(label, <<ToString(n.v)>>)>>
           cut == Slice(v, limit)
       IN IF ~cut.ok THEN ItemRaise(cut.exc, found)
          ELSE LET each == ForEach(Iter(cut.v).v, Body)
               IN [ok |-> each.ok, exc |-> each.exc, lines |-> found \o each.lines]

\* Section 1 from the return of get_json(topics/list) to the next call
trends_topics(fetched) ==
  LET m == Set(<<>>, "topics", fetched.v)
      listed == CountAndList(fetched.v, "FoundTopics", TopicsShown, TrendsTopicLine)
  IN IF ~listed.ok THEN Crashed(m, fetched.printed \o listed.lines)
     ELSE Outcome("categories", m,
                  fetched.printed \o listed.lines \o <<Line("Section2", <<>>)>>,
                  <<TrendsGet("/categories/list/v1", "categories")>>)

\* Section 2 from the return of get_json(categories/list) to the next call
trends_cats(m, fetched) ==
  LET m1 == Set(m, "cats", fetched.v)
      listed == CountAndList(fetched.v, "FoundCategories", CatsShown, TrendsCatLine)
  IN IF ~listed.ok THEN Crashed(m1, fetched.printed \o listed.lines)
     ELSE Outcome("coins", m1,
                  fetched.printed \o listed.lines \o <<Line("Section3", <<>>)>>,
                  <<TrendsGet("/coins/list/v2", "coins")>>)

\* others = [c for c in coins if c.get('symbol') not in ignored], on dicts
FilterIgnored(coins) ==
  SelectSeq(coins, LAMBDA c : Get(c, "symbol", JNull) \notin ignored)

\* The sort whose missing alt_rank ranks first
SortByAltRankZero(others) == SortBy(others, "alt_rank", JInt(0), FALSE)

\* others.sort(key=lambda x: x.get('alt_rank', 9999))
SortByAltRank(others) == SortBy(others, "alt_rank", JInt(AltRankDefault), FALSE)

\* The filter and the sort, on the elements of coins
AltRankOthers(coins) ==
  IF \E i \in 1..Len(coins) : coins[i].t # "dict" THEN Raise("AttributeError")
  ELSE SortByAltRank(FilterIgnored(coins))

CoinLine(c, i) ==
  ItemOk(<<Line("Coin", <<PyStr(Get(c, "name", JNull)), PyStr(Get(c, "symbol", JNull)),
                          PyStr(Get(c, "alt_rank", JNull)),
                          PyStr(Get(c, "social_volume_24h", JNull))>>)>>)

\* Section 3 from the return of get_json(coins/list) to the end
trends_coins(m, fetched) ==
  LET coins == fetched.v
      m1 == Set(m, "coins", coins)
  IN
  IF ~Truthy(coins) THEN Outcome("done", m1, fetched.printed, <<>>)
  ELSE LET first == GetItemFirst(coins) IN
  IF ~first.ok \/ first.v.t # "dict" THEN Crashed(m1, fetched.printed)
  ELSE LET sample == fetched.printed \o <<Line("SampleKeys", <<>>)>>
           others == AltRankOthers(Iter(coins).v)
  IN
  IF ~others.ok THEN Crashed(m1, sample)
  ELSE Outcome("done", Set(m1, "others", others.v),
               sample \o <<Line("Top5ByAltRank", <<>>)>>
                 \o ForEach(Take(others.v.l, CoinsShown), CoinLine).lines,
               <<>>)

(***************************************************************************)
(* verify_lunar_integrations.py                                            *)
(***************************************************************************)
VERIFY_URL == "https://lunarcrush.com/api4"
VerifyTimeout == 10
JBool(b) == [t |-> "bool", b |-> b]

VerifyGet(path) == Request("GET", VERIFY_URL \o path, <<VerifyTimeout>>, <<>>, "verify")

\* test_endpoint(name, url)
test_endpoint(name, call) ==
  LET pre == <<Line("Testing", <<name>>), Line("URL", <<call.url>>)>>
      error(e, lines) == Returned(Ok(JBool(FALSE)), lines \o <<Line("ERROR", <<e>>)>>)
      res == HttpResult(call)
  IN
  IF ~res.ok THEN error(res.exc, pre)
  ELSE IF res.v.status # 200
    THEN Returned(Ok(JBool(FALSE)), pre \o <<Line("FAILED", <<ToString(res.v.status)>>)>>)
  ELSE LET data == ResJson(res.v) IN
  IF ~data.ok THEN error(data.exc, pre)
  ELSE LET items == GetAttr(data.v, "data", EmptyList) IN
  IF ~items.ok THEN error(items.exc, pre)
  ELSE LET item_count == PyLen(items.v) IN
  IF ~item_count.ok THEN error(item_count.exc, pre)
  ELSE LET success == pre \o <<Line("SUCCESS", <<>>),
                               Line("ItemsFound", <<ToString(item_count.v)>>)>>
  IN
  IF item_count.v = 0 THEN Returned(Ok(JBool(TRUE)), success)
  ELSE LET first_item == GetItemFirst(items.v) IN
  IF ~first_item.ok THEN error(first_item.exc, success)
  ELSE IF first_item.v.t # "dict" THEN error("AttributeError", success)
  ELSE Returned(Ok(JBool(TRUE)), success \o <<Line("SampleData", <<>>)>>)

\* __main__: from the return of one test_endpoint to the next call
verify_next(tested, label, req) == Outcome(label, <<>>, tested.printed, req)

(***************************************************************************)
(* What the two servers may answer.                                        *)
(***************************************************************************)
Topic(id, volume, interactions) ==
  JDict([topic |-> JStr(id), social_volume_24h |-> JInt(volume),
         interactions_24h |-> JInt(interactions)])

\* Seven topics with distinct interactions_24h, out of order
SevenTopics ==
  <<Topic("ai", 3, 30), Topic("defi", 9, 70), Topic("nft", 1, 10), Topic("l2", 4, 50),
    Topic("meme", 2, 20), Topic("rwa", 8, 60), Topic("dao", 5, 40)>>

\* Topics with equal and missing interactions_24h
TiedTopics ==
  <<JDict([topic |-> JStr("a")]), Topic("b", 1, 0), Topic("c", 2, 5), Topic("d", 3, 5)>>

Category(id, interactions) ==
  JDict([category |-> JStr(id), name |-> JStr(id), interactions_24h |-> JInt(interactions)])

News(title, interactions) ==
  JDict([post_title |-> JStr(title), creator_display_name |-> JStr("src"),
         post_sentiment |-> JInt(3), interactions_total |-> JInt(interactions)])

SixNews ==
  <<News("n1", 1200), JDict([post_title |-> JStr("n2")]), News("n3", 1500000),
    News("n4", 1200), News("n5", 7), News("n6", 90)>>

Coin(symbol, rank) == JDict([symbol |-> JStr(symbol), name |-> JStr(symbol), alt_rank |-> JInt(rank)])

FourCoins ==
  <<Coin("BTC", 1), JDict([symbol |-> JStr("NEW")]), Coin("LATE", 10000), Coin("HOT", 2)>>

\* data values of an unexpected shape
Shapes ==
  {JNull, EmptyList, JInt(7), JStr("oops"), JDict([a |-> JInt(1)]), JList(<<JStr("x")>>)}

\* well-formed lists, and lists of records whose ranking key is null
Lists(kind) ==
  CASE kind = "topics" ->
         {JList(SevenTopics), JList(TiedTopics),
          JList(<<JDict([topic |-> JStr("a"), interactions_24h |-> JNull])>>),
          JList(<<Topic("b", 1, 0), JDict([topic |-> JStr("a"), interactions_24h |-> JNull])>>)}
    [] kind = "categories" ->
         {JList(<<Category("defi", 5), Category("gaming", 9)>>),
          JList(<<Category("defi", 5), JDict([category |-> JStr("x"), interactions_24h |-> JStr("7")])>>)}
    [] kind \in {"news", "cat_news"} ->
         {JList(SixNews),
          JList(<<JDict([post_title |-> JStr("n"), interactions_total |-> JNull])>>),
          JList(<<JDict([post_title |-> JStr("n"), interactions_total |-> JStr("7")])>>)}
    [] kind = "coins" ->
         {JList(FourCoins), JList(<<Coin("HOT", 2), JDict([symbol |-> JStr("X"), alt_rank |-> JNull])>>)}
    [] kind = "whatsup" -> {JDict([summary |-> JStr("s")])}
    [] kind = "verify" -> {JList(FourCoins)}
    [] OTHER -> {}

GoodAnswer ==
  JDict([candidates |->
    JList(<<JDict([content |-> JDict([parts |-> JList(<<JDict([text |-> JStr("analysis")])>>)])])>>)])

Bodies(kind) ==
  {NotJson, Json(JNull), Json(EmptyList), Json(JList(<<JStr("data")>>)), Json(EmptyDict),
   Json(JDict([error |-> JStr("x")]))}
    \cup (IF kind = "gemini"
          THEN {Json(GoodAnswer), Json(JDict([candidates |-> EmptyList])),
                Json(JDict([candidates |-> JList(<<JDict([content |-> JNull])>>)]))}
          ELSE {Json(JDict([data |-> d])) : d \in Shapes \cup Lists(kind)})

Statuses == {200, 202, 500}

Responses(kind) ==
  {RespExc, RespSilent} \cup {Http(s, b) : s \in Statuses, b \in Bodies(kind)}

(***************************************************************************)
(* The processes.                                                          *)
(***************************************************************************)
Scripts == {"explore_smart_trends", "fetch_lunarcrush", "test_trends", "verify_lunar_integrations"}

NoReturn == [fn |-> "none"]
NoServer == [kind |-> "none"]

Init ==
  /\ script \in Scripts
  /\ pc = "start"
  /\ mem = <<>>
  /\ out = <<>>
  /\ requests = <<>>
  /\ server = NoServer
  /\ ret = NoReturn
  /\ given = JNull

\* The call the process waits on
InFlight ==
  LET q == requests[Len(requests)]
  IN Call(q.method, q.url, q.timeout, q.payload, server)

At(name, label) == script = name /\ pc = label

Waiting(name, label) == At(name, label) /\ Returns(InFlight)

\* The process takes the section's outcome; a request it issues meets one of
\* the servers
Step(o, r, servers) ==
  /\ pc' = o.pc
  /\ mem' = o.mem
  /\ out' = out \o o.out
  /\ ret' = r
  /\ IF o.req = <<>>
     THEN requests' = requests /\ server' = server
     ELSE /\ requests' = Append(requests, o.req[1])
          /\ server' \in servers
  /\ UNCHANGED script

Do(o, r) ==
  /\ Step(o, r, IF o.req = <<>> THEN {} ELSE Responses(o.req[1].kind))
  /\ UNCHANGED given

\* What is kept of a helper's return: the call, what it handed back, and what
\* the section after it printed and requested.
Ret(fn, h, o) == [fn |-> fn, call |-> InFlight, h |-> h, said |-> o.out, issued |-> o.req]

Explore_Start ==
  /\ At("explore_smart_trends", "start")
  /\ Do(Outcome("topics", <<>>, <<Line("Banner", <<>>), Line("Section1", <<>>)>>,
                <<ExploreGet("/topics/list/v1", "topics")>>), NoReturn)

Explore_Topics ==
  /\ Waiting("explore_smart_trends", "topics")
  /\ LET h == get_json_explore(InFlight)
         o == explore_topics(h)
     IN Do(o, Ret("get_json", h, o))

Explore_WhatsUp ==
  /\ Waiting("explore_smart_trends", "whatsup")
  /\ LET h == get_json_explore(InFlight)
         o == explore_whatsup(mem, h)
     IN Do(o, Ret("get_json", h, o))

Explore_News ==
  /\ Waiting("explore_smart_trends", "news")
  /\ LET h == get_json_explore(InFlight)
         o == explore_news(mem, h)
     IN Do(o, Ret("get_json", h, o))

Explore_Categories ==
  /\ Waiting("explore_smart_trends", "categories")
  /\ LET h == get_json_explore(InFlight)
         o == explore_categories(mem, h)
     IN Do(o, Ret("get_json", h, o))

Explore_CatNews ==
  /\ Waiting("explore_smart_trends", "cat_news")
  /\ LET h == get_json_explore(InFlight)
         o == explore_cat_news(mem, h)
     IN Do(o, Ret("get_json", h, o))

Trends_Start ==
  /\ At("test_trends", "start")
  /\ Do(Outcome("topics", <<>>, <<Line("Banner", <<>>), Line("Section1", <<>>)>>,
                <<TrendsGet("/topics/list/v1", "topics")>>), NoReturn)

Trends_Topics ==
  /\ Waiting("test_trends", "topics")
  /\ LET h == get_json_trends(InFlight)
         o == IF h.ok THEN trends_topics(h) ELSE Crashed(mem, h.printed)
     IN Do(o, Ret("get_json", h, o))

Trends_Categories ==
  /\ Waiting("test_trends", "categories")
  /\ LET h == get_json_trends(InFlight)
         o == IF h.ok THEN trends_cats(mem, h) ELSE Crashed(mem, h.printed)
     IN Do(o, Ret("get_json", h, o))

Trends_Coins ==
  /\ Waiting("test_trends", "coins")
  /\ LET h == get_json_trends(InFlight)
         o == IF h.ok THEN trends_coins(mem, h) ELSE Crashed(mem, h.printed)
     IN Do(o, Ret("get_json", h, o))

Fetch_Start ==
  /\ At("fetch_lunarcrush", "start")
  /\ Do(Outcome("news", <<>>, <<>>, <<Request("GET", LUNAR_URL, <<>>, <<>>, "news")>>),
        NoReturn)

Fetch_Fetched ==
  /\ Waiting("fetch_lunarcrush", "news")
  /\ LET h == fetch_lunarcrush_data(InFlight)
         o == fetch_lunarcrush_main(h)
     IN Do(o, Ret("fetch_lunarcrush_data", h, o))

Fetch_Analysed ==
  /\ Waiting("fetch_lunarcrush", "gemini")
  /\ LET h == AiAnswer(InFlight)
         o == analyze_data_report(mem, h)
     IN Do(o, Ret("get_ai_analysis", h, o))

Verify_Start ==
  /\ At("verify_lunar_integrations", "start")
  /\ Do(Outcome("coins", <<>>, <<Line("Banner", <<>>), Line("ApiKey", <<>>)>>,
                <<VerifyGet("/public/coins/list/v1")>>), NoReturn)

Verify_Coins ==
  /\ Waiting("verify_lunar_integrations", "coins")
  /\ LET h == test_endpoint("Global Market Trends (Pulse)", InFlight)
         o == verify_next(h, "posts", <<VerifyGet("/public/creator/twitter/ETH/posts/v1")>>)
     IN Do(o, Ret("test_endpoint", h, o))

Verify_Posts ==
  /\ Waiting("verify_lunar_integrations", "posts")
  /\ LET h == test_endpoint("Context Posts (ETH)", InFlight)
         o == verify_next(h, "news", <<VerifyGet("/public/category/cryptocurrencies/news/v1")>>)
     IN Do(o, Ret("test_endpoint", h, o))

Verify_News ==
  /\ Waiting("verify_lunar_integrations", "news")
  /\ LET h == test_endpoint("Category News (Cryptocurrencies)", InFlight)
         o == verify_next(h, "done", <<>>)
     IN Do(o, Ret("test_endpoint", h, o))

Next ==
  \/ Explore_Start \/ Explore_Topics \/ Explore_WhatsUp \/ Explore_News
  \/ Explore_Categories \/ Explore_CatNews
  \/ Trends_Start \/ Trends_Topics \/ Trends_Categories \/ Trends_Coins
  \/ Fetch_Start \/ Fetch_Fetched \/ Fetch_Analysed
  \/ Verify_Start \/ Verify_Coins \/ Verify_Posts \/ Verify_News

Spec == Init /\ [][Next]_vars

(***************************************************************************)
(* The functions on their own: each is called once on an argument drawn    *)
(* from bounded sets of record sequences, and the ranking sections a       *)
(* second time on their own result.                                        *)
(***************************************************************************)
MaxLen == 6
MaxCoins == 4
MaxNews == 17

SeqsUpTo(S, n) == UNION {[1..k -> S] : k \in 0..n}

Rotate(s, r) == [i \in 1..Len(s) |-> s[((i - 1 + r) % Len(s)) + 1]]

TopicItems == {TiedTopics[i] : i \in 1..Len(TiedTopics)}

CategoryItems ==
  {JDict([category |-> JStr("a"), name |-> JStr("A")]), Category("b", 0), Category("c", 5),
   Category("d", 5)}

NewsItems ==
  {JDict([post_title |-> JStr("n2")]), News("n0", 0), News("n1", 1200), News("n4", 1200)}

CoinItems ==
  {FourCoins[i] : i \in 1..Len(FourCoins)} \cup {Coin("EDGE", AltRankDefault)}

\* News lists longer than the prompt takes
LongNews(n) == [i \in 1..n |-> IF i % 3 = 0 THEN JDict([post_title |-> JStr("n" \o ToString(i))])
                                ELSE News("n" \o ToString(i), 1000 - i)]

FnNames ==
  {"explore_topics", "explore_categories", "analyze_data", "get_ai_analysis", "trends_coins"}

FnInputs(fn) ==
  CASE fn = "explore_topics" ->
         {JList(s) : s \in SeqsUpTo(TopicItems, MaxLen)}
           \cup {JList(Rotate(SevenTopics, r)) : r \in 0..Len(SevenTopics) - 1}
    [] fn = "explore_categories" -> {JList(s) : s \in SeqsUpTo(CategoryItems, MaxLen)}
    [] fn = "analyze_data" -> {JDict([data |-> JList(s)]) : s \in SeqsUpTo(NewsItems, MaxLen)}
    [] fn = "get_ai_analysis" ->
         {JList(LongNews(n)) : n \in 0..MaxNews}
           \cup {JList(<<JStr("headline")>>), JList(<<News("n1", 5), JInt(7)>>)}
    [] fn = "trends_coins" -> {JList(s) : s \in SeqsUpTo(CoinItems, MaxCoins)}

FnResponses == {RespExc, Http(500, NotJson), Http(200, Json(EmptyDict)), Http(200, Json(GoodAnswer))}

InitFn ==
  /\ script \in FnNames
  /\ given \in FnInputs(script)
  /\ pc = "call"
  /\ mem = <<>>
  /\ out = <<>>
  /\ requests = <<>>
  /\ server = NoServer
  /\ ret = NoReturn

Handed(v) == Returned(Ok(v), <<>>)

Call_explore_topics ==
  /\ At("explore_topics", "call")
  /\ Step(explore_topics(Handed(given)), NoReturn, {NoServer})
  /\ UNCHANGED given

Again_explore_topics ==
  /\ script = "explore_topics" /\ pc \in {"whatsup", "categories"}
  /\ "top_topics" \in DOMAIN mem
  /\ LET o == explore_topics(Handed(mem.top_topics))
     IN Step(Outcome("again", o.mem, o.out, <<>>), NoReturn, {})
  /\ given' = mem.top_topics

Call_explore_categories ==
  /\ At("explore_categories", "call")
  /\ Step(explore_categories(<<>>, Handed(given)), NoReturn, {NoServer})
  /\ UNCHANGED given

Again_explore_categories ==
  /\ script = "explore_categories" /\ pc \in {"cat_news", "done"}
  /\ "sorted_cats" \in DOMAIN mem
  /\ LET top == JList(Take(mem.sorted_cats.l, TopCategories))
         o == explore_categories(<<>>, Handed(top))
     IN Step(Outcome("again", o.mem, o.out, <<>>), NoReturn, {}) /\ given' = top

Call_analyze_data ==
  /\ At("analyze_data", "call")
  /\ Step(analyze_data(<<>>, given), NoReturn, FnResponses)
  /\ UNCHANGED given

Return_analyze_data ==
  /\ Waiting("analyze_data", "gemini")
  /\ LET h == AiAnswer(InFlight)
         o == analyze_data_report(mem, h)
     IN Step(o, Ret("get_ai_analysis", h, o), {})
  /\ UNCHANGED given

Call_get_ai_analysis ==
  /\ At("get_ai_analysis", "call")
  /\ Step(get_ai_analysis_call(<<>>, given, <<>>), NoReturn, FnResponses)
  /\ UNCHANGED given

Return_get_ai_analysis ==
  /\ Waiting("get_ai_analysis", "gemini")
  /\ LET h == AiAnswer(InFlight)
         o == Outcome("returned", mem, h.printed, <<>>)
     IN Step(o, Ret("get_ai_analysis", h, o), {})
  /\ UNCHANGED given

Call_trends_coins ==
  /\ At("trends_coins", "call")
  /\ Step(trends_coins(<<>>, Handed(given)), NoReturn, {})
  /\ UNCHANGED given

NextFn ==
  \/ Call_explore_topics \/ Again_explore_topics
  \/ Call_explore_categories \/ Again_explore_categories
  \/ Call_analyze_data \/ Return_analyze_data
  \/ Call_get_ai_analysis \/ Return_get_ai_analysis
  \/ Call_trends_coins

SpecFn == InitFn /\ [][NextFn]_vars

(***************************************************************************)
(* Properties.                                                             *)
(***************************************************************************)
Final == {"done", "crashed"}

Lines(printed, fmt) == SelectSeq(printed, LAMBDA l : l.fmt = fmt)

Printed(printed, fmts) == \E i \in 1..Len(printed) : printed[i].fmt \in fmts

\* A helper of the three fetching scripts has just returned
FetchReturned(name, fn) == script = name /\ ret.fn = fn

\* The call ended in a transport exception, a timeout or a status other than 200
Not200(call) == call.resp.kind # "http" \/ call.resp.status # 200

\* The call ended in HTTP 200 with a JSON object as its body
ObjectBody(call) ==
  /\ call.resp.kind = "http" /\ call.resp.status = 200
  /\ call.resp.body.json /\ call.resp.body.v.t = "dict"

DataOrEmpty(call) ==
  IF "data" \in DOMAIN call.resp.body.v.m THEN call.resp.body.v.m.data ELSE EmptyList

FailureLines == {"Failed", "Error", "Exception", "ErrorStatus", "ErrorFetching"}

\* C1 as claimed: in every script the fetch helper returns an empty sequence,
\* without raising and after logging, on a non-200 status or a transport
\* exception, and returns the data field (or an empty sequence) on HTTP 200 with
\* a JSON object body.
C1_HelperReturnsEmptySequence ==
  (\/ FetchReturned("test_trends", "get_json")
   \/ FetchReturned("explore_smart_trends", "get_json")
   \/ FetchReturned("fetch_lunarcrush", "fetch_lunarcrush_data"))
  => /\ Not200(ret.call)
          => ret.h.ok /\ ret.h.v = EmptyList /\ Printed(ret.h.printed, FailureLines)
     /\ ObjectBody(ret.call) => ret.h.ok /\ ret.h.v = DataOrEmpty(ret.call)

\* C1 amended: get_json never raises; on a non-200 status or a transport
\* exception it logs and returns [] in test_trends.py and None in
\* explore_smart_trends.py, and on HTTP 200 with a JSON object body it returns
\* the data field or [].  fetch_lunarcrush_data logs and returns None on a
\* transport exception or a 4xx/5xx status, and returns the whole body, not its
\* data field, on any other status with a JSON body.
C1_HelperFailsSoft ==
  /\ FetchReturned("test_trends", "get_json")
       => /\ ret.h.ok
          /\ Not200(ret.call)
               => ret.h.v = EmptyList /\ Printed(ret.h.printed, FailureLines)
          /\ ObjectBody(ret.call) => ret.h.v = DataOrEmpty(ret.call)
  /\ FetchReturned("explore_smart_trends", "get_json")
       => /\ ret.h.ok
          /\ Not200(ret.call)
               => ret.h.v = JNull /\ Printed(ret.h.printed, FailureLines)
          /\ ObjectBody(ret.call) => ret.h.v = DataOrEmpty(ret.call)
  /\ FetchReturned("fetch_lunarcrush", "fetch_lunarcrush_data")
       => /\ (ret.call.resp.kind # "http" \/ ret.call.resp.status >= 400)
               => ret.h.ok /\ ret.h.v = JNull /\ Printed(ret.h.printed, FailureLines)
          /\ (ret.call.resp.kind = "http" /\ ret.call.resp.status < 400
                /\ ret.call.resp.body.json)
               => ret.h.ok /\ ret.h.v = ret.call.resp.body.v

\* C1 witness: get_json has met an HTTP 500 and a transport exception in one run
\* of explore_smart_trends.py and handed back None both times
C1_Witness ==
  /\ FetchReturned("explore_smart_trends", "get_json")
  /\ pc = "done"
  /\ ret.call.resp.kind = "http" /\ ret.call.resp.status = 500
  /\ ret.h.v = JNull
  /\ Len(Lines(out, "ErrorStatus")) = 1 /\ Len(Lines(out, "Exception")) = 1

\* C2 as claimed: nothing is fatal, no run of any script ends in an uncaught
\* exception, whatever its HTTP calls bring
C2_NothingIsFatal == pc # "crashed"

\* The fetch returned HTTP 200 with data equal to the empty list
EmptyData(call) ==
  /\ ObjectBody(call)
  /\ "data" \in DOMAIN call.resp.body.v.m
  /\ call.resp.body.v.m.data = EmptyList

\* A listing or news fetch (not the whatsup summary) has just returned
ListingReturned ==
  /\ ret.fn \in {"get_json", "fetch_lunarcrush_data"}
  /\ script \in {"explore_smart_trends", "fetch_lunarcrush", "test_trends"}
  /\ ret.call.url # BASE_URL \o "/topic/" \o PyStr(Get(JDict(mem), "star_topic", JNull)) \o "/whatsup/v1"

NoDataLines == {"NoPostsFound", "NoValidData", "FoundTopics", "FoundCategories"}
HeaderLines ==
  {"BriefHeader", "TopStoriesHeader", "AIAnalysis", "Top5Categories", "Top5ByAltRank",
   "SampleKeys", "DeepDive", "AskingWhatsUp", "FetchingTopNews", "NewsForTopCategory"}
RecordLines == {"Topic", "Category", "News", "CatNews", "Coin", "Story", "StorySource"}
DependentKinds == {"gemini", "whatsup", "news", "cat_news"}

\* The section printed no header and no record line and issued no request that
\* depends on the list
NoReport ==
  /\ ~Printed(ret.said, HeaderLines \cup RecordLines)
  /\ \A i \in 1..Len(ret.issued) : ret.issued[i].kind \notin DependentKinds

\* C3 as claimed: in every script a fetch that returns 200 with data == [] makes
\* the section print a "no data" message, no header and no record line, and
\* issue no summary request
C3_EmptyDataPrintsNoData ==
  (ListingReturned /\ EmptyData(ret.call)) => Printed(ret.said, NoDataLines) /\ NoReport

\* C3 amended: after a fetch that returns 200 with data == [] no script prints a
\* header or a record line or issues a dependent request; fetch_lunarcrush.py
\* prints "No posts found.", test_trends.py prints the "Found 0 ..." count of
\* topics and categories and nothing for coins, explore_smart_trends.py prints
\* nothing for the section.
C3_EmptyDataPrintsNoReport ==
  (ListingReturned /\ EmptyData(ret.call))
  => /\ NoReport
     /\ script = "fetch_lunarcrush"
          => Lines(ret.said, "NoPostsFound") = <<Line("NoPostsFound", <<>>)>> /\ pc = "done"
     /\ script = "test_trends"
          => /\ ret.call.url = BASE_URL \o "/topics/list/v1"
                  => Lines(ret.said, "FoundTopics") = <<Line("FoundTopics", <<"0">>)>>
             /\ ret.call.url = BASE_URL \o "/categories/list/v1"
                  => Lines(ret.said, "FoundCategories") = <<Line("FoundCategories", <<"0">>)>>
             /\ ret.call.url = BASE_URL \o "/coins/list/v2" => ret.said = <<>>
     /\ script = "explore_smart_trends" => ~Printed(ret.said, NoDataLines)

\* C3 witness: fetch_lunarcrush.py got 200 with data == [] and said "No posts found."
C3_Witness ==
  /\ FetchReturned("fetch_lunarcrush", "fetch_lunarcrush_data")
  /\ EmptyData(ret.call)
  /\ Printed(ret.said, {"NoPostsFound"})
  /\ requests = <<Request("GET", LUNAR_URL, <<>>, <<>>, "news")>>

(***************************************************************************)
(* The ranking, stated by counting: a record's place is one more than the  *)
(* number of records with a greater key plus the number of earlier records *)
(* with an equal key; a record without the key counts as 0.                *)
(***************************************************************************)
KeyNum(x, k) == IF k \in DOMAIN x.m /\ x.m[k].t = "int" THEN x.m[k].n ELSE 0

Place(s, k, i) ==
  1 + Cardinality({j \in 1..Len(s) : KeyNum(s[j], k) > KeyNum(s[i], k)})
    + Cardinality({j \in 1..(i - 1) : KeyNum(s[j], k) = KeyNum(s[i], k)})

Ranked(s, k) == [p \in 1..Len(s) |-> s[CHOOSE i \in 1..Len(s) : Place(s, k, i) = p]]

TopRanked(s, k, n) == SubSeq(Ranked(s, k), 1, IF Len(s) < n THEN Len(s) ELSE n)

\* A field as the report shows it: the value's text, or None when it is absent
Shown(x, f) ==
  IF f \notin DOMAIN x.m THEN "None"
  ELSE IF x.m[f].t = "int" THEN ToString(x.m[f].n) ELSE x.m[f].s

DistinctKeys(s, k) ==
  /\ \A i \in 1..Len(s) : k \in DOMAIN s[i].m
  /\ \A i, j \in 1..Len(s) : i # j => s[i].m[k] # s[j].m[k]

StrictlyDescending(s, k) ==
  \A i, j \in 1..Len(s) : i < j => s[i].m[k].n > s[j].m[k].n

TopicsRanked ==
  script = "explore_topics" /\ pc \in {"whatsup", "categories"} /\ "top_topics" \in DOMAIN mem

CategoriesRanked ==
  script = "explore_categories" /\ pc \in {"cat_news", "done"} /\ "sorted_cats" \in DOMAIN mem

StoriesReported ==
  script = "analyze_data" /\ pc = "done" /\ ret.fn = "get_ai_analysis"

C5_RankingIsIdempotent ==
  /\ (script = "explore_topics" /\ pc = "again") => mem.top_topics = given
  /\ (script = "explore_categories" /\ pc = "again")
       => SubSeq(mem.sorted_cats.l, 1, Min(5, Len(mem.sorted_cats.l))) = given.l

\* C5 witness: a top 5 holding two records with equal keys and one without the
\* key was ranked a second time
C5_Witness ==
  /\ script = "explore_topics" /\ pc = "again"
  /\ Len(given.l) = 5
  /\ \E i, j \in 1..5 :
       /\ i < j
       /\ "interactions_24h" \in DOMAIN given.l[i].m /\ "interactions_24h" \in DOMAIN given.l[j].m
       /\ given.l[i] # given.l[j]
       /\ given.l[i].m.interactions_24h = given.l[j].m.interactions_24h
  /\ \E i \in 1..5 : "interactions_24h" \notin DOMAIN given.l[i].m

CoinsSorted == script = "trends_coins" /\ pc = "done" /\ "others" \in DOMAIN mem

Unranked(c) == "alt_rank" \notin DOMAIN c.m

NoIgnoredCoin == \A i \in 1..Len(mem.others.l) : mem.others.l[i].m.symbol \notin ignored

\* C6 as claimed: no ignored symbol is in the result, the sort does not raise
\* when alt_rank is missing, and every coin without alt_rank comes after every
\* coin with one, whatever its value
C6_UnrankedSortLast ==
  /\ script = "trends_coins" => pc # "crashed"
  /\ CoinsSorted =>
       /\ NoIgnoredCoin
       /\ \A i, j \in 1..Len(mem.others.l) :
            (Unranked(mem.others.l[i]) /\ ~Unranked(mem.others.l[j])) => j < i

\* C6 amended: no ignored symbol is in the result, the sort does not raise when
\* alt_rank is missing, and every coin without alt_rank comes after every coin
\* whose alt_rank is below 9999 and before every coin whose alt_rank is above it
C6_UnrankedSortAs9999 ==
  /\ script = "trends_coins" => pc # "crashed"
  /\ CoinsSorted =>
       /\ NoIgnoredCoin
       /\ \A i, j \in 1..Len(mem.others.l) :
            (Unranked(mem.others.l[i]) /\ ~Unranked(mem.others.l[j]))
              => /\ mem.others.l[j].m.alt_rank.n < 9999 => j < i
                 /\ mem.others.l[j].m.alt_rank.n > 9999 => i < j

\* C6 witness: BTC was dropped and a coin without alt_rank, first in the input,
\* was placed behind a ranked one
C6_Witness ==
  /\ CoinsSorted
  /\ Len(given.l) = 3 /\ Unranked(given.l[1]) /\ given.l[2].m.symbol = JStr("BTC")
  /\ Len(mem.others.l) = 2 /\ Unranked(mem.others.l[2])

PromptIssued == script \in {"get_ai_analysis", "analyze_data"} /\ pc = "gemini"

news_items == IF script = "get_ai_analysis" THEN given.l ELSE mem.sorted_data.l

\* C7: the prompt holds min(n, 15) record lines, one for each of the first
\* min(n, 15) records in order, carrying the record's title, source, sentiment
\* and interactions as present in it
C7_PromptHoldsFirst15 ==
  PromptIssued =>
    LET lines == requests[Len(requests)].payload
        n == Len(news_items)
    IN /\ Len(lines) = IF n < 15 THEN n ELSE 15
       /\ \A i \in 1..Len(lines) :
            lines[i] = "- " \o Shown(news_items[i], "post_title")
                         \o " (Source: " \o Shown(news_items[i], "creator_display_name")
                         \o ", Sentiment: " \o Shown(news_items[i], "post_sentiment")
                         \o ", Interactions: " \o Shown(news_items[i], "interactions_total")
                         \o ")"

\* C7 witness: 17 records were passed and the prompt holds 15 lines
C7_Witness ==
  /\ script = "get_ai_analysis" /\ pc = "gemini"
  /\ Len(given.l) = 17
  /\ Len(requests[1].payload) = 15
  /\ requests[1].payload[15] = "- n15 (Source: None, Sentiment: None, Interactions: None)"

\* The POST failed: a transport exception, an error status, a body that is not
\* JSON or that lacks candidates[0].content.parts[0].text
PostFailed(call) ==
  \/ call.resp.kind # "http"
  \/ call.resp.status < 200 \/ call.resp.status >= 300
  \/ ~call.resp.body.json
  \/ ~CandidateText(call.resp.body.v).ok

C9_EveryRunTerminates == pc \in Final \/ pc = "start" \/ Returns(InFlight)

Issued(kind) == SelectSeq(requests, LAMBDA q : q.kind = kind)

\* C10 as claimed: the POST is issued at most once and only after the news GET
\* brought a non-empty data list; the whatsup and news requests are issued at
\* most once, only after a non-empty topics list, for the first topic of the
\* descending ranking; the categories list is requested exactly once in every
\* run of explore_smart_trends.py
C10_DependentRequestsAreGated ==
  /\ script = "fetch_lunarcrush" =>
       /\ Len(Issued("gemini")) <= 1
       /\ Len(Issued("gemini")) = 1
            => "data" \in DOMAIN mem /\ mem.data.t = "list" /\ mem.data.l # <<>>
  /\ script = "explore_smart_trends" =>
       /\ Len(Issued("whatsup")) <= 1 /\ Len(Issued("news")) <= 1
       /\ \A q \in {Issued("whatsup")[i] : i \in 1..Len(Issued("whatsup"))}
                 \cup {Issued("news")[i] : i \in 1..Len(Issued("news"))} :
            /\ mem.topics.t = "list" /\ mem.topics.l # <<>>
            /\ \E tail \in {"/whatsup/v1", "/news/v1"} :
                 q.url = BASE_URL \o "/topic/"
                           \o Shown(Ranked(mem.topics.l, "interactions_24h")[1], "topic") \o tail
       /\ pc \in Final => Len(Issued("categories")) = 1
====
